---- MODULE Spec2Model ----
(***************************************************************************)
(* GHOST local-search engine (Solver::solve and its helpers).  Costs are   *)
(* modelled as integers: every error and objective function of the        *)
(* problem instances below is integer valued, so double arithmetic on     *)
(* them is exact.  Ids are 1-based here and 0-based in the source.         *)
(***************************************************************************)
EXTENDS Integers, Sequences, FiniteSets, TLC

\* ------------------------------------------------------------- bounds
\* Largest reading of the steady clock (in ticks) and largest timeout.
MaxNow == 2
\* search_iterations saturates at this count.
MaxIterations == 1

\* ---------------------------------------------------------- constants
\* std::numeric_limits<double>::max()
DBL_MAX == 1000000
\* restart() calls set_initial_configuration( 10 )
Samplings == 10

\* ------------------------------------------------- problem instances
\* "eq"     two 0/1 variables, one constraint: error 0 iff they are equal
\* "unsat"  one variable in 0..3, error |x - 10|
\* "knap"   knapsack with a capacity constraint and a value to maximise
\* "chain"  three variables, the third with the single value 2, and two
\*          constraints sharing the second variable
\* "free"   a variable that belongs to no constraint
\* "perm"   a permutation problem on three variables
\* "quad"   four 0/1 variables and two constraints, the second of which no
\*          assignment satisfies (Solver.cpp loop only)
\* "order"  a permutation problem on three variables with two constraints
\*          sharing the second variable (Solver.cpp loop only)
\* "void"   as "free", but the second variable has an empty domain; no solve
\*          run starts from it below, only the construction of the engine
Problems == {"eq", "unsat", "knap", "chain", "free", "perm"}

NumVars(p) ==
  CASE p = "eq" -> 2 [] p = "unsat" -> 1 [] p = "knap" -> 2
    [] p = "chain" -> 3 [] p = "free" -> 2 [] p = "perm" -> 3
    [] p = "void" -> 2 [] p = "quad" -> 4 [] p = "order" -> 3

NumCtrs(p) ==
  CASE p = "chain" -> 2 [] p = "quad" -> 2 [] p = "order" -> 2 [] OTHER -> 1

Domain(p, v) ==
  CASE p = "eq" -> 0..1
    [] p = "unsat" -> 0..3
    [] p = "knap" -> IF v = 1 THEN 0..2 ELSE 0..1
    [] p = "chain" -> IF v = 3 THEN {2} ELSE 1..2
    [] p = "free" -> 0..1
    [] p = "perm" -> 0..2
    [] p = "void" -> IF v = 1 THEN 0..1 ELSE {}
    [] p = "quad" -> 0..1
    [] p = "order" -> 0..2

\* Constraint::has_variable: the scope of constraint c.
Scope(p, c) ==
  CASE p = "eq" -> {1, 2}
    [] p = "unsat" -> {1}
    [] p = "knap" -> {1, 2}
    [] p = "chain" -> IF c = 1 THEN {1, 2} ELSE {2, 3}
    [] p = "free" -> {1}
    [] p = "perm" -> {1, 2, 3}
    [] p = "void" -> {1}
    [] p = "quad" -> IF c = 1 THEN {1, 2} ELSE {3, 4}
    [] p = "order" -> IF c = 1 THEN {1, 2} ELSE {2, 3}

HasObjective(p) == p = "knap"

IsPermutation(p) == p \in {"perm", "order"}

Abs(x) == IF x < 0 THEN -x ELSE x

Max2(x, y) == IF x > y THEN x ELSE y

B2I(b) == IF b THEN 1 ELSE 0

\* Constraint::required_error of constraint c on the assignment a.
RequiredError(p, c, a) ==
  CASE p = "eq" -> B2I(a[1] # a[2])
    [] p = "unsat" -> Abs(a[1] - 10)
    [] p = "knap" -> Max2(0, a[1] + 2 * a[2] - 2)
    [] p = "chain" -> IF c = 1 THEN Abs(a[1] - a[2]) ELSE B2I(a[2] = a[3])
    [] p = "free" -> B2I(a[1] # 1)
    [] p = "perm" -> B2I(a[1] = a[2]) + B2I(a[2] = a[3])
    [] p = "void" -> B2I(a[1] # 1)
    [] p = "quad" -> IF c = 1 THEN B2I(a[1] # a[2]) ELSE 1 + B2I(a[3] # a[4])
    [] p = "order" -> IF c = 1 THEN B2I(a[1] > a[2]) ELSE B2I(a[2] > a[3])

\* Objective::required_cost; NullObjective returns 0.
RequiredCost(p, a) ==
  IF p = "knap" THEN -(5 * a[1] + 6 * a[2]) ELSE 0

\* The assignments the caller may construct the variables with.
InitialValues(p) ==
  IF IsPermutation(p)
    THEN {[v \in 1..NumVars(p) |-> v - 1]}
    ELSE {a \in [1..NumVars(p) -> 0..3] : \A v \in 1..NumVars(p) : a[v] \in Domain(p, v)}

\* ------------------------------------------------------------- state
VARIABLES
  prob,                      \* the problem the solver was constructed with
  pc,                        \* position in solve()
  ret,                       \* where the running restart() returns to
  variables,                 \* _variables[v].get_value()
  view,                      \* view[c][v]: value of v last sent to constraint c
  obj_view,                  \* value of each variable last sent to the objective
  final_solution,
  final_cost,
  result,                    \* value returned by solve()
  error_constraints,
  error_variables,
  error_non_tabu_variables,
  weak_tabu_list,
  best_sat_error,
  best_sat_error_opt_loop,   \* _best_sat_error_opt_loop; Solver.cpp: _bestSatCostOptLoop
  start_opt_loop,            \* Solver.cpp: startOptLoop - start
  best_opt_cost,
  current_sat_error,
  current_opt_cost,
  no_random_starting_point,
  free_variables,
  timeout,
  now,                       \* steady_clock::now() - start
  elapsed_time,
  search_iterations,
  samp_i,                    \* loop counter of set_initial_configuration
  best_values,               \* local of set_initial_configuration
  sic_best_sat_error,        \* local best_sat_error of set_initial_configuration
  pending,                   \* locals of the iteration alive across restart()
  min_best_seen,             \* history: lowest best_sat_error at earlier stable points
  min_current_seen           \* history: lowest current_sat_error at earlier stable points

vars == <<prob, best_sat_error_opt_loop, start_opt_loop,
          pc, ret, variables, view, obj_view, final_solution, final_cost,
          result, error_constraints, error_variables, error_non_tabu_variables,
          weak_tabu_list, best_sat_error, best_opt_cost, current_sat_error,
          current_opt_cost, no_random_starting_point, free_variables, timeout,
          now, elapsed_time, search_iterations, samp_i, best_values, sic_best_sat_error,
          pending,
          min_best_seen, min_current_seen>>

Vars == 1..NumVars(prob)

Ctrs == 1..NumCtrs(prob)

is_optimization == HasObjective(prob)

\* _matrix_var_ctr[v]: the constraints variable v appears in.
matrix_var_ctr(v) == {c \in Ctrs : v \in Scope(prob, c)}

RECURSIVE SumOver(_, _)
SumOver(f, S) ==
  IF S = {} THEN 0
  ELSE LET x == CHOOSE y \in S : TRUE IN f[x] + SumOver(f, S \ {x})

MinOf(S) == CHOOSE x \in S : \A y \in S : x <= y

MaxOf(S) == CHOOSE x \in S : \A y \in S : x >= y

Zeros == [v \in Vars |-> 0]

NoPending == [variable_to_change |-> 0, new_value |-> 0, deltas |-> <<>>, min_conflict |-> 0]

\* std::vector<int>::resize( n ): keeps a prefix, pads with 0.
Resize(s, n) == [i \in 1..n |-> IF i <= Len(s) THEN s[i] ELSE 0]

\* Constraint::error(): the error of the constraint on its own view.
call_error(c) == RequiredError(prob, c, view[c])

\* Objective::cost() on the objective's own view.
ObjectiveCost(ov) == RequiredCost(prob, ov)

\* Objective::update_variable( v, x )
ObjectiveUpdate(ov, v, x) == [ov EXCEPT ![v] = x]

\* Constraint::simulate_delta( v, x ): error with v at x minus current error.
simulate_delta(c, v, x) ==
  RequiredError(prob, c, [view[c] EXCEPT ![v] = x]) - RequiredError(prob, c, view[c])

\* ---------------------------------------------------------- Init
Init ==
  /\ prob \in Problems
  /\ pc = "idle"
  /\ ret = "none"
  /\ variables \in InitialValues(prob)
  /\ view = [c \in Ctrs |-> variables]
  /\ obj_view = variables
  /\ final_solution \in {<<>>, Zeros}
  /\ final_cost = 0
  /\ result = FALSE
  /\ error_constraints = [c \in Ctrs |-> 0]
  /\ error_variables = Zeros
  /\ error_non_tabu_variables = Zeros
  /\ weak_tabu_list = Zeros
  /\ best_sat_error = DBL_MAX
  /\ best_opt_cost = DBL_MAX
  /\ current_sat_error = DBL_MAX
  /\ current_opt_cost = DBL_MAX
  /\ no_random_starting_point = FALSE
  /\ free_variables = TRUE
  /\ timeout = 0
  /\ now = 0
  /\ elapsed_time = 0
  /\ search_iterations = 0
  /\ samp_i = 0
  /\ best_values = Zeros
  /\ sic_best_sat_error = DBL_MAX
  /\ best_sat_error_opt_loop = DBL_MAX
  /\ start_opt_loop = 0
  /\ pending = NoPending
  /\ min_best_seen = DBL_MAX
  /\ min_current_seen = DBL_MAX

\* ------------------------------------------------------ solve: entry
\* solve(): lines up to the first call of restart().
SolveCall ==
  /\ pc = "idle"
  /\ \E t \in {0, MaxNow}, nrs \in BOOLEAN :
       /\ timeout' = t
       /\ no_random_starting_point' = nrs
  /\ final_solution' = Resize(final_solution, NumVars(prob))
  /\ search_iterations' = 0
  /\ pc' = "restart"
  /\ ret' = "first"
  /\ UNCHANGED <<prob, best_sat_error_opt_loop, start_opt_loop,
                 variables, view, obj_view, final_cost, result,
                 error_constraints, error_variables, error_non_tabu_variables,
                 weak_tabu_list, best_sat_error, best_opt_cost, current_sat_error,
                 current_opt_cost, free_variables, now, elapsed_time, samp_i,
                 best_values, sic_best_sat_error, pending, min_best_seen,
                 min_current_seen>>

\* A variant in which the clock stands still.
ReadClockStopped ==
  /\ now' = now
  /\ elapsed_time' = now

\* "elapsed_time = std::chrono::steady_clock::now() - start": the clock is
\* read, and it has not gone back since the last reading.
ReadClock ==
  \E t \in now..MaxNow :
    /\ now' = t
    /\ elapsed_time' = t

\* ---------------------------------------------------------- restart
\* A variant that sends nothing.
SendAssignmentNone(vw, vals) == vw

\* restart(): send the assignment vals to the constraints.
SendAssignment(vw, vals) ==
  [c \in Ctrs |-> [v \in Vars |-> IF v \in Scope(prob, c) THEN vals[v] ELSE vw[c][v]]]

\* compute_constraints_errors(): the vector written to _error_constraints.
compute_constraints_errors(vw) ==
  [c \in Ctrs |-> RequiredError(prob, c, vw[c])]

\* compute_variables_errors() on a zeroed _error_variables.
compute_variables_errors(ec) ==
  [v \in Vars |-> SumOver(ec, matrix_var_ctr(v))]

\* restart(): from "Reset constraints costs" to its end, with the variables
\* at vals, and the return to the caller.
RestartTail(vals) ==
  /\ variables' = vals
  /\ view' = SendAssignment(view, vals)
  /\ error_constraints' = compute_constraints_errors(view')
  /\ current_sat_error' = SumOver(error_constraints', Ctrs)
  /\ error_variables' = compute_variables_errors(error_constraints')
  /\ error_non_tabu_variables' = error_variables'
  /\ free_variables' = TRUE
  /\ IF ret = "apply"
       THEN pc' = "apply" /\ UNCHANGED <<elapsed_time, now>>
       ELSE pc' = "guard" /\ ReadClock
  /\ ret' = "none"

\* A variant that samples on every restart.
StartsRandomAlways == TRUE

\* "if( !_no_random_starting_point )"
StartsRandom == ~no_random_starting_point

\* restart(): resets, then either enters set_initial_configuration( 10 ) or,
\* on a start from the caller's assignment, runs to its end.
Restart ==
  /\ pc = "restart"
  /\ best_sat_error' = DBL_MAX
  /\ best_opt_cost' = DBL_MAX
  /\ best_sat_error_opt_loop' = DBL_MAX
  /\ weak_tabu_list' = Zeros
  /\ \/ /\ StartsRandom
        /\ pc' = "sampling"
        /\ samp_i' = 0
        /\ best_values' = Zeros
        /\ sic_best_sat_error' = DBL_MAX
        /\ UNCHANGED <<ret, variables, view, error_constraints, current_sat_error,
                       error_variables, error_non_tabu_variables, free_variables,
                       elapsed_time, now, no_random_starting_point>>
     \/ /\ ~StartsRandom
        /\ no_random_starting_point' = FALSE
        /\ RestartTail(variables)
        /\ UNCHANGED <<samp_i, best_values, sic_best_sat_error>>
  /\ UNCHANGED <<prob, start_opt_loop, obj_view, final_solution, final_cost, result,
                 current_opt_cost, timeout, search_iterations, pending,
                 min_best_seen, min_current_seen>>

\* random_permutations(): every pair (i, j), i < j, in order, swapped or not.
PairsFrom(i, j, n) ==
  LET RECURSIVE P(_, _)
      P(a, b) == IF a >= n THEN <<>>
                 ELSE IF b > n THEN P(a + 1, a + 2)
                 ELSE <<<<a, b>>>> \o P(a, b + 1)
  IN P(i, j)

RECURSIVE SwapOutcomes(_, _)
SwapOutcomes(vals, pairs) ==
  IF pairs = <<>> THEN {vals}
  ELSE LET i == Head(pairs)[1]
           j == Head(pairs)[2]
           swapped == [vals EXCEPT ![i] = vals[j], ![j] = vals[i]]
       IN SwapOutcomes(vals, Tail(pairs)) \cup SwapOutcomes(swapped, Tail(pairs))

random_permutations(vals) == SwapOutcomes(vals, PairsFrom(1, 2, NumVars(prob)))

\* A variant in which every variable picks the lowest value of its domain.
monte_carlo_sampling_lowest ==
  {[v \in Vars |-> MinOf(Domain(prob, v))]}

\* monte_carlo_sampling(): every variable picks a value of its domain.
monte_carlo_sampling ==
  {a \in [Vars -> 0..3] : \A v \in Vars : a[v] \in Domain(prob, v)}

\* One turn of the sampling loop of set_initial_configuration; the last turn
\* runs on to the end of restart().  The errors are those the constraints
\* return, i.e. of the values last sent to them.  The source assigns
\* "best_sat_cost = current_sat_cost", so the local best_sat_error keeps its
\* initial value.
Sample ==
  /\ pc = "sampling"
  /\ \E s \in (IF IsPermutation(prob) THEN random_permutations(variables)
                                      ELSE monte_carlo_sampling) :
       LET cur == SumOver([c \in Ctrs |-> call_error(c)], Ctrs)
           bv == IF sic_best_sat_error > cur THEN s ELSE best_values
           last == cur = 0 \/ samp_i + 1 >= Max2(1, Samplings)
       IN IF last
            THEN /\ RestartTail(bv)
                 /\ samp_i' = 0
                 /\ best_values' = Zeros
            ELSE /\ variables' = s
                 /\ best_values' = bv
                 /\ samp_i' = samp_i + 1
                 /\ UNCHANGED <<pc, ret, view, error_constraints, current_sat_error,
                                error_variables, error_non_tabu_variables,
                                free_variables, elapsed_time, now>>
  /\ UNCHANGED <<prob, best_sat_error_opt_loop, start_opt_loop,
                 obj_view, final_solution, final_cost, result, weak_tabu_list,
                 best_sat_error, best_opt_cost, current_opt_cost,
                 no_random_starting_point, timeout, search_iterations,
                 sic_best_sat_error, pending, min_best_seen, min_current_seen>>

\* ------------------------------------------------ solve: one iteration
\* A variant that freezes for _number_variables - 1 iterations.
tabu_time_local_min_all == Max2(1, NumVars(prob) - 1)

\* "int tabu_time_local_min = std::max( 1u, _number_variables / 2 )"
tabu_time_local_min == Max2(1, NumVars(prob) \div 2)

\* "int tabu_time_selected = std::max( 1, tabu_time_local_min / 2 )"
tabu_time_selected == Max2(1, tabu_time_local_min \div 2)

\* A variant that stops as soon as best_sat_error is 0.
LoopGuardSatOnly ==
  /\ elapsed_time < timeout
  /\ best_sat_error > 0

\* The guard of the while loop of solve().
LoopGuard ==
  /\ elapsed_time < timeout
  /\ (best_sat_error > 0 \/ (best_sat_error = 0 /\ is_optimization))

\* A variant that keeps only the first variable of largest error.
compute_worst_variables_first ==
  LET worst_variable_cost == MaxOf({error_variables[u] : u \in Vars})
  IN {MinOf({v \in Vars : error_variables[v] = worst_variable_cost})}

\* compute_worst_variables(): the content of _worst_variables_list.
compute_worst_variables ==
  LET worst_variable_cost == MaxOf({error_variables[u] : u \in Vars})
  IN {v \in Vars : error_variables[v] = worst_variable_cost}

\* A variant that explores every value but the one the variable holds.
DeltaErrorsOthers(v) ==
  [x \in (IF matrix_var_ctr(v) = {} THEN {} ELSE Domain(prob, v) \ {variables[v]}) |->
     [c \in matrix_var_ctr(v) |-> simulate_delta(c, v, x)]]

\* delta_errors: one entry per explored value, holding one delta per
\* constraint of the variable; no entry when it has no constraint.
DeltaErrors(v) ==
  [x \in (IF matrix_var_ctr(v) = {} THEN {} ELSE Domain(prob, v)) |->
     [c \in matrix_var_ctr(v) |-> simulate_delta(c, v, x)]]

\* cumulated_delta_errors
Cumulated(de) == [x \in DOMAIN de |-> SumOver(de[x], DOMAIN de[x])]

\* min_conflict after the selection loop.
MinConflict(cum) ==
  IF DOMAIN cum = {} THEN DBL_MAX ELSE MinOf({cum[x] : x \in DOMAIN cum})

\* candidate_values after the selection loop.
CandidateValues(cum) == {x \in DOMAIN cum : cum[x] = MinConflict(cum)}

\* "if this is the best candidate we found so far, save it"
IsNewBest(best, current) == best > current

\* A variant that charges the deltas to the moved variable only.
UpdatedErrorVariablesMovedOnly(ev, v, d) ==
  [u \in Vars |-> IF u = v THEN ev[u] + SumOver(d, matrix_var_ctr(v)) ELSE ev[u]]

\* _error_variables after the incremental update for a move of v with
\* per-constraint deltas d.
UpdatedErrorVariables(ev, v, d) ==
  [u \in Vars |->
     ev[u] + SumOver(d, {c \in matrix_var_ctr(v) : u \in Scope(prob, c)})]

\* _error_constraints after the incremental update.
UpdatedErrorConstraints(ec, v, d) ==
  [c \in Ctrs |-> IF c \in matrix_var_ctr(v) THEN ec[c] + d[c] ELSE ec[c]]

\* call_update_variable( c, v, x ) for every constraint c of v.
UpdatedViews(vw, v, x) ==
  [c \in Ctrs |-> IF c \in matrix_var_ctr(v) THEN [vw[c] EXCEPT ![v] = x] ELSE vw[c]]

\* A variant that leaves the total untouched.
UpdatedSatErrorUnchanged(current, mc) == current

\* _current_sat_error after the move.
UpdatedSatError(current, mc) == current + mc

\* solve(): from "_current_sat_error += min_conflict" to the end of the loop
\* body, for the move of v to x with deltas d and summed delta mc.
ApplyMove(v, x, d, mc) ==
  /\ current_sat_error' = UpdatedSatError(current_sat_error, mc)
  /\ variables' = [variables EXCEPT ![v] = x]
  /\ error_constraints' = UpdatedErrorConstraints(error_constraints, v, d)
  /\ error_variables' = UpdatedErrorVariables(error_variables, v, d)
  /\ view' = UpdatedViews(view, v, x)
  /\ IF IsNewBest(best_sat_error, current_sat_error')
       THEN /\ best_sat_error' = current_sat_error'
            /\ final_solution' = variables'
       ELSE UNCHANGED <<best_sat_error, final_solution>>
  /\ obj_view' = ObjectiveUpdate(obj_view, v, x)
  /\ current_opt_cost' = ObjectiveCost(obj_view')
  /\ ReadClock
  /\ pc' = "guard"

\* What every iteration does on entering the loop body.
EnterIteration ==
  /\ pc = "guard"
  /\ LoopGuard
  /\ search_iterations' = IF search_iterations < MaxIterations
                            THEN search_iterations + 1 ELSE search_iterations
  /\ min_best_seen' = IF best_sat_error < min_best_seen THEN best_sat_error
                                                         ELSE min_best_seen
  /\ min_current_seen' = IF current_sat_error < min_current_seen THEN current_sat_error
                                                                  ELSE min_current_seen

\* The handoff test: "if we are about to satisfy all constraints and we are
\* dealing with an optimization problem".
IsHandoff(mc) == current_sat_error + mc = 0 /\ is_optimization

\* A variant of the walk branch that ignores the draw.
WalkDrawnAlways(r) == TRUE

\* "_rng.uniform(0.0, 1.0) < 0.1" drew r: the restart branch is taken.
RestartDrawn(r) == r

\* The else branch of the same test: walk on the plateau.
WalkDrawn(r) == ~r

\* The conditions under which an iteration that drew the variable v, the
\* value x and the restart draw r takes each branch of the loop body.
Picked(v, x) ==
  /\ v \in compute_worst_variables
  /\ x \in CandidateValues(Cumulated(DeltaErrors(v)))

MinConflictOf(v) == MinConflict(Cumulated(DeltaErrors(v)))

\* "_objective->update_variable( ... ); candidate_opt_cost = _objective->cost()"
CandidateOptCost(v, x) == ObjectiveCost(ObjectiveUpdate(obj_view, v, x))

TakesHandoff(v, x) ==
  /\ Picked(v, x)
  /\ MinConflictOf(v) <= 0
  /\ IsHandoff(MinConflictOf(v))

TakesHandoffAdopt(v, x) ==
  TakesHandoff(v, x) /\ current_opt_cost > CandidateOptCost(v, x)

TakesHandoffEqualRestart(v, x, r) ==
  TakesHandoff(v, x) /\ current_opt_cost = CandidateOptCost(v, x) /\ RestartDrawn(r)

TakesHandoffEqualWalk(v, x, r) ==
  TakesHandoff(v, x) /\ current_opt_cost = CandidateOptCost(v, x) /\ WalkDrawn(r)

TakesHandoffWorseRestart(v, x) ==
  TakesHandoff(v, x) /\ current_opt_cost < CandidateOptCost(v, x)

TakesPlateauRestart(v, x, r) ==
  /\ Picked(v, x)
  /\ MinConflictOf(v) = 0
  /\ ~IsHandoff(MinConflictOf(v))
  /\ RestartDrawn(r)

TakesApply(v, x, r) ==
  /\ Picked(v, x)
  /\ MinConflictOf(v) <= 0
  /\ ~IsHandoff(MinConflictOf(v))
  /\ (MinConflictOf(v) = 0 => WalkDrawn(r))

TakesWorsenRestart(v) ==
  /\ v \in compute_worst_variables
  /\ MinConflictOf(v) > 0

\* The read of an empty candidate list by _rng.pick.
EmptyPick(v) ==
  /\ v \in compute_worst_variables
  /\ CandidateValues(Cumulated(DeltaErrors(v))) = {}

\* The iteration calls restart() and will fall through to the move code.
CallRestartThenApply(v, x, d, mc) ==
  /\ pending' = [variable_to_change |-> v, new_value |-> x, deltas |-> d,
                 min_conflict |-> mc]
  /\ ReadClock
  /\ pc' = "restart"
  /\ ret' = "apply"

\* Handoff, the objective improves: the cost is adopted, the constraints are
\* told the new value, and the loop continues.
IterHandoffAdoptWith(v, x) ==
  /\ EnterIteration
  /\ v \in compute_worst_variables
  /\ LET de == DeltaErrors(v)
           cum == Cumulated(de)
           mc == MinConflict(cum)
       IN x \in CandidateValues(cum) /\
            LET ov == ObjectiveUpdate(obj_view, v, x)
                candidate_opt_cost == ObjectiveCost(ov)
            IN /\ TakesHandoffAdopt(v, x)
               /\ obj_view' = ov
               /\ current_opt_cost' = candidate_opt_cost
               /\ IF best_opt_cost > candidate_opt_cost
                    THEN /\ best_opt_cost' = candidate_opt_cost
                         /\ final_solution' = variables
                    ELSE UNCHANGED <<best_opt_cost, final_solution>>
               /\ view' = UpdatedViews(view, v, x)
  /\ ReadClock
  /\ UNCHANGED <<prob, best_sat_error_opt_loop, start_opt_loop,
                 pc, ret, variables, final_cost, result, error_constraints,
                 error_variables, error_non_tabu_variables, weak_tabu_list,
                 best_sat_error, current_sat_error, no_random_starting_point,
                 free_variables, timeout, samp_i, best_values,
                 sic_best_sat_error, pending>>

IterHandoffAdopt ==
  \E v \in Vars : \E x \in Domain(prob, v) : IterHandoffAdoptWith(v, x)

\* Handoff, equal cost, the 10% draw: restart.
IterHandoffEqualRestartWith(v, x, r) ==
  /\ EnterIteration
  /\ v \in compute_worst_variables
  /\ LET de == DeltaErrors(v)
           cum == Cumulated(de)
           mc == MinConflict(cum)
       IN x \in CandidateValues(cum) /\
            LET ov == ObjectiveUpdate(obj_view, v, x)
            IN /\ TakesHandoffEqualRestart(v, x, r)
               /\ obj_view' = ov
               /\ CallRestartThenApply(v, x, de[x], mc)
  /\ UNCHANGED <<prob, best_sat_error_opt_loop, start_opt_loop,
                 variables, view, final_solution, final_cost, result,
                 error_constraints, error_variables, error_non_tabu_variables,
                 weak_tabu_list, best_sat_error, best_opt_cost, current_sat_error,
                 current_opt_cost, no_random_starting_point, free_variables,
                 timeout, samp_i, best_values, sic_best_sat_error>>

IterHandoffEqualRestart ==
  \E v \in Vars : \E x \in Domain(prob, v) : \E r \in BOOLEAN : IterHandoffEqualRestartWith(v, x, r)

\* Handoff, equal cost, the 90% draw: walk on the plateau.
IterHandoffEqualWalkWith(v, x, r) ==
  /\ EnterIteration
  /\ v \in compute_worst_variables
  /\ LET de == DeltaErrors(v)
           cum == Cumulated(de)
           mc == MinConflict(cum)
       IN x \in CandidateValues(cum) /\
            LET ov == ObjectiveUpdate(obj_view, v, x)
            IN /\ TakesHandoffEqualWalk(v, x, r)
               /\ obj_view' = ov
               /\ view' = UpdatedViews(view, v, x)
  /\ ReadClock
  /\ UNCHANGED <<prob, best_sat_error_opt_loop, start_opt_loop,
                 pc, ret, variables, final_solution, final_cost, result,
                 error_constraints, error_variables, error_non_tabu_variables,
                 weak_tabu_list, best_sat_error, best_opt_cost, current_sat_error,
                 current_opt_cost, no_random_starting_point, free_variables,
                 timeout, samp_i, best_values, sic_best_sat_error, pending>>

IterHandoffEqualWalk ==
  \E v \in Vars : \E x \in Domain(prob, v) : \E r \in BOOLEAN : IterHandoffEqualWalkWith(v, x, r)

\* Handoff, the objective gets worse: restart.
IterHandoffWorseRestartWith(v, x) ==
  /\ EnterIteration
  /\ v \in compute_worst_variables
  /\ LET de == DeltaErrors(v)
           cum == Cumulated(de)
           mc == MinConflict(cum)
       IN x \in CandidateValues(cum) /\
            LET ov == ObjectiveUpdate(obj_view, v, x)
            IN /\ TakesHandoffWorseRestart(v, x)
               /\ obj_view' = ov
               /\ CallRestartThenApply(v, x, de[x], mc)
  /\ UNCHANGED <<prob, best_sat_error_opt_loop, start_opt_loop,
                 variables, view, final_solution, final_cost, result,
                 error_constraints, error_variables, error_non_tabu_variables,
                 weak_tabu_list, best_sat_error, best_opt_cost, current_sat_error,
                 current_opt_cost, no_random_starting_point, free_variables,
                 timeout, samp_i, best_values, sic_best_sat_error>>

IterHandoffWorseRestart ==
  \E v \in Vars : \E x \in Domain(prob, v) : IterHandoffWorseRestartWith(v, x)

\* No handoff, a plateau, the 10% draw: restart.
IterPlateauRestartWith(v, x, r) ==
  /\ EnterIteration
  /\ v \in compute_worst_variables
  /\ LET de == DeltaErrors(v)
           cum == Cumulated(de)
           mc == MinConflict(cum)
       IN x \in CandidateValues(cum) /\
            /\ TakesPlateauRestart(v, x, r)
            /\ CallRestartThenApply(v, x, de[x], mc)
  /\ UNCHANGED <<prob, best_sat_error_opt_loop, start_opt_loop,
                 variables, view, obj_view, final_solution, final_cost, result,
                 error_constraints, error_variables, error_non_tabu_variables,
                 weak_tabu_list, best_sat_error, best_opt_cost, current_sat_error,
                 current_opt_cost, no_random_starting_point, free_variables,
                 timeout, samp_i, best_values, sic_best_sat_error>>

IterPlateauRestart ==
  \E v \in Vars : \E x \in Domain(prob, v) : \E r \in BOOLEAN : IterPlateauRestartWith(v, x, r)

\* No handoff and no restart: the move is applied.
IterApplyWith(v, x, r) ==
  /\ EnterIteration
  /\ v \in compute_worst_variables
  /\ LET de == DeltaErrors(v)
           cum == Cumulated(de)
           mc == MinConflict(cum)
       IN x \in CandidateValues(cum) /\
            /\ TakesApply(v, x, r)
            /\ ApplyMove(v, x, de[x], mc)
  /\ UNCHANGED <<prob, best_sat_error_opt_loop, start_opt_loop,
                 ret, final_cost, result, error_non_tabu_variables,
                 weak_tabu_list, best_opt_cost, no_random_starting_point,
                 free_variables, timeout, samp_i, best_values,
                 sic_best_sat_error, pending>>

IterApply ==
  \E v \in Vars : \E x \in Domain(prob, v) : \E r \in BOOLEAN : IterApplyWith(v, x, r)

\* min_conflict > 0: "Restart mechanism to escape local minima".  The picked
\* variable may have no constraint; candidate_values is then empty and
\* _rng.pick reads past an empty vector: this is the outcome where the read
\* returns some value, which the branch never uses.
IterWorsenRestartWith(v) ==
  /\ EnterIteration
  /\ TakesWorsenRestart(v)
  /\ ReadClock
  /\ pc' = "restart"
  /\ ret' = "else"
  /\ UNCHANGED <<prob, best_sat_error_opt_loop, start_opt_loop,
                 variables, view, obj_view, final_solution, final_cost, result,
                 error_constraints, error_variables, error_non_tabu_variables,
                 weak_tabu_list, best_sat_error, best_opt_cost, current_sat_error,
                 current_opt_cost, no_random_starting_point, free_variables,
                 timeout, samp_i, best_values, sic_best_sat_error, pending>>

IterWorsenRestart ==
  \E v \in Vars : IterWorsenRestartWith(v)

\* _rng.pick on an empty candidate_values: the outcome where the read faults.
IterPickCrashWith(v) ==
  /\ EnterIteration
  /\ EmptyPick(v)
  /\ pc' = "crashed"
  /\ UNCHANGED <<prob, best_sat_error_opt_loop, start_opt_loop,
                 ret, variables, view, obj_view, final_solution, final_cost,
                 result, error_constraints, error_variables,
                 error_non_tabu_variables, weak_tabu_list, best_sat_error,
                 best_opt_cost, current_sat_error, current_opt_cost,
                 no_random_starting_point, free_variables, timeout, now,
                 elapsed_time, samp_i, best_values, sic_best_sat_error, pending>>

IterPickCrash ==
  \E v \in Vars : IterPickCrashWith(v)

\* restart() has returned inside the acceptance branch: the code below the
\* branch runs with the move chosen before the restart.
ApplyPending ==
  /\ pc = "apply"
  /\ ApplyMove(pending.variable_to_change, pending.new_value, pending.deltas,
               pending.min_conflict)
  /\ pending' = NoPending
  /\ UNCHANGED <<prob, best_sat_error_opt_loop, start_opt_loop,
                 ret, final_cost, result, error_non_tabu_variables,
                 weak_tabu_list, best_opt_cost, no_random_starting_point,
                 free_variables, timeout, search_iterations, samp_i,
                 best_values, sic_best_sat_error, min_best_seen, min_current_seen>>

\* ------------------------------------------------------ solve: exit
\* A variant returning whether the current configuration is error free.
ReturnValueCurrent == current_sat_error = 0

\* The value solve() returns: "return _best_sat_error == 0.".
ReturnValue == best_sat_error = 0

\* "Set the variables to the best solution values": set_value stores the
\* value it is given.
RestoreVariables(fs) == [v \in Vars |-> fs[v]]

\* A variant that reports the cost as stored.
UnNegatedKeepSign(cost) == cost

\* "if( _best_opt_cost < 0 ) _best_opt_cost = -_best_opt_cost"
UnNegated(cost) == IF cost < 0 THEN -cost ELSE cost

\* solve(): the loop guard is false; final cost, restore, return.  The default
\* post-processing hooks do nothing.
Finalize ==
  /\ pc = "guard"
  /\ ~LoopGuard
  /\ IF is_optimization
       THEN /\ best_opt_cost' = UnNegated(best_opt_cost)
            /\ final_cost' = best_opt_cost'
       ELSE /\ final_cost' = best_sat_error
            /\ UNCHANGED best_opt_cost
  /\ variables' = RestoreVariables(final_solution)
  /\ result' = ReturnValue
  /\ pc' = "done"
  /\ min_best_seen' = IF best_sat_error < min_best_seen THEN best_sat_error
                                                         ELSE min_best_seen
  /\ min_current_seen' = IF current_sat_error < min_current_seen THEN current_sat_error
                                                                  ELSE min_current_seen
  /\ UNCHANGED <<prob, best_sat_error_opt_loop, start_opt_loop,
                 ret, view, obj_view, final_solution, error_constraints,
                 error_variables, error_non_tabu_variables, weak_tabu_list,
                 best_sat_error, current_sat_error, current_opt_cost,
                 no_random_starting_point, free_variables, timeout, now,
                 elapsed_time, search_iterations, samp_i, best_values,
                 sic_best_sat_error, pending>>

Next ==
  \/ SolveCall
  \/ Restart
  \/ Sample
  \/ IterHandoffAdopt
  \/ IterHandoffEqualRestart
  \/ IterHandoffEqualWalk
  \/ IterHandoffWorseRestart
  \/ IterPlateauRestart
  \/ IterApply
  \/ IterWorsenRestart
  \/ IterPickCrash
  \/ ApplyPending
  \/ Finalize

Spec == Init /\ [][Next]_vars

\* The iteration ends with a reading of the steady clock later than the one
\* the loop guard was evaluated on: an iteration takes time.
TakesTime == now' > now

\* The steps of solve() when every loop iteration takes time.
TimedNext ==
  \/ SolveCall
  \/ Restart
  \/ Sample
  \/ IterHandoffAdopt /\ TakesTime
  \/ IterHandoffEqualRestart /\ TakesTime
  \/ IterHandoffEqualWalk /\ TakesTime
  \/ IterHandoffWorseRestart /\ TakesTime
  \/ IterPlateauRestart /\ TakesTime
  \/ IterApply /\ TakesTime
  \/ IterWorsenRestart /\ TakesTime
  \/ IterPickCrash
  \/ ApplyPending
  \/ Finalize

\* The instances the timed runs start from: between them they reach every
\* branch of the loop, and two of them can only leave it on the timeout.
FairInit == Init /\ prob \in {"knap", "unsat", "free"}

\* solve() keeps running until it returns, and its clock advances.
FairSpec == FairInit /\ [][TimedNext]_vars /\ WF_vars(TimedNext)

\* ---------------------------------------------------------- objective
\* A variant that returns without restoring the variable.
RestoreBackupNone(a, var, backup) == a

\* "var.set_value( backup )"
RestoreBackup(a, var, backup) == [a EXCEPT ![var] = backup]

\* Objective::expert_heuristic_value( variables, var, possible_values ): the
\* values rng.pick( bestValues ) may return, and the values the variables are
\* left with.  The loop sets var to each possible value in turn; the callers
\* pass the values in increasing order, so the last one set is the largest.
expert_heuristic_value(a, var, possible_values) ==
  LET backup == a[var]
      simulatedCost == [v \in possible_values |-> RequiredCost(prob, [a EXCEPT ![var] = v])]
      minCost == MinOf({simulatedCost[v] : v \in possible_values})
      bestValues == {v \in possible_values : simulatedCost[v] = minCost}
      afterLoop == [a EXCEPT ![var] = MaxOf(possible_values)]
  IN [returns |-> bestValues,
      variables |-> RestoreBackup(afterLoop, var, backup)]

\* NullObjective::expert_heuristic_value: rng.pick( values_list ).
null_heuristic_value(a, var, values_list) ==
  [returns |-> values_list, variables |-> a]

\* The heuristic_value of the objective the engine holds.
heuristic_value(a, var, values) ==
  IF is_optimization THEN expert_heuristic_value(a, var, values)
                     ELSE null_heuristic_value(a, var, values)

\* The arguments of a call of heuristic_value: the variables, each at a value
\* of its domain, one of them as var, and a non-empty list of values of its
\* domain (kept in pending until the call returns).  The objective is that of
\* the problem; where the problem has none, one whose cost is constant.
HeurInit ==
  /\ prob \in Problems \ {"perm"}
  /\ pc = "heuristic"
  /\ ret = "none"
  /\ variables \in monte_carlo_sampling
  /\ view = [c \in Ctrs |-> variables]
  /\ obj_view = variables
  /\ final_solution = Zeros
  /\ final_cost = 0
  /\ result = FALSE
  /\ error_constraints = [c \in Ctrs |-> 0]
  /\ error_variables = Zeros
  /\ error_non_tabu_variables = Zeros
  /\ weak_tabu_list = Zeros
  /\ best_sat_error = DBL_MAX
  /\ best_opt_cost = DBL_MAX
  /\ current_sat_error = DBL_MAX
  /\ current_opt_cost = DBL_MAX
  /\ no_random_starting_point = FALSE
  /\ free_variables = TRUE
  /\ timeout = 0
  /\ now = 0
  /\ elapsed_time = 0
  /\ search_iterations = 0
  /\ samp_i = 0
  /\ best_values = Zeros
  /\ sic_best_sat_error = DBL_MAX
  /\ best_sat_error_opt_loop = DBL_MAX
  /\ start_opt_loop = 0
  /\ \E var \in Vars : \E possible_values \in SUBSET Domain(prob, var) \ {{}} :
       pending = [variable_to_change |-> var, new_value |-> 0,
                  deltas |-> [v \in possible_values |-> 0], min_conflict |-> 0]
  /\ min_best_seen = DBL_MAX
  /\ min_current_seen = DBL_MAX

\* The call heuristic_value( variables, var, possible_values ) and its return.
HeuristicCall ==
  /\ pc = "heuristic"
  /\ LET r == expert_heuristic_value(variables, pending.variable_to_change,
                                     DOMAIN pending.deltas)
     IN /\ \E picked \in r.returns : pending' = [pending EXCEPT !.new_value = picked]
        /\ variables' = r.variables
  /\ pc' = "returned"
  /\ UNCHANGED <<prob, best_sat_error_opt_loop, start_opt_loop,
                 ret, view, obj_view, final_solution, final_cost, result,
                 error_constraints, error_variables, error_non_tabu_variables,
                 weak_tabu_list, best_sat_error, best_opt_cost, current_sat_error,
                 current_opt_cost, no_random_starting_point, free_variables,
                 timeout, now, elapsed_time, search_iterations, samp_i,
                 best_values, sic_best_sat_error, min_best_seen, min_current_seen>>

HeurNext == HeuristicCall

HeurSpec == HeurInit /\ [][HeurNext]_vars

\* ------------------------------------------------------- construction
\* The problems an engine may be constructed with.
CtorProblems == Problems \cup {"void"}

\* The variables handed to the constructor: each holds a value of its domain;
\* what a variable with an empty domain holds is not determined.
CtorValues(p) ==
  {a \in [1..NumVars(p) -> 0..3] :
     \A v \in 1..NumVars(p) : Domain(p, v) # {} => a[v] \in Domain(p, v)}

\* Before the constructor runs no member of the engine exists.
CtorInit ==
  /\ prob \in CtorProblems
  /\ pc = "constructing"
  /\ ret = "none"
  /\ variables \in (IF IsPermutation(prob) THEN InitialValues(prob) ELSE CtorValues(prob))
  /\ view = [c \in Ctrs |-> variables]
  /\ obj_view = variables
  /\ final_solution \in {<<>>, Zeros}
  /\ final_cost = 0
  /\ result = FALSE
  /\ error_constraints = <<>>
  /\ error_variables = <<>>
  /\ error_non_tabu_variables = <<>>
  /\ weak_tabu_list = <<>>
  /\ best_sat_error = 0
  /\ best_opt_cost = 0
  /\ current_sat_error = 0
  /\ current_opt_cost = 0
  /\ no_random_starting_point = FALSE
  /\ free_variables = FALSE
  /\ timeout = 0
  /\ now = 0
  /\ elapsed_time = 0
  /\ search_iterations = 0
  /\ samp_i = 0
  /\ best_values = Zeros
  /\ sic_best_sat_error = DBL_MAX
  /\ best_sat_error_opt_loop = 0
  /\ start_opt_loop = 0
  /\ pending = NoPending
  /\ min_best_seen = DBL_MAX
  /\ min_current_seen = DBL_MAX

\* Solver::Solver: the member initialisers; the body builds _matrix_var_ctr
\* and the id mappings from has_variable and reads the value of the first
\* variable only.  Nothing in it looks at a domain, and it has no failing exit.
Construct ==
  /\ pc = "constructing"
  /\ pc' = "idle"
  /\ no_random_starting_point' = FALSE
  /\ free_variables' = TRUE
  /\ weak_tabu_list' = Zeros
  /\ error_variables' = Zeros
  /\ error_constraints' = [c \in Ctrs |-> 0]
  /\ error_non_tabu_variables' = Zeros
  /\ best_sat_error' = DBL_MAX
  /\ best_sat_error_opt_loop' = DBL_MAX
  /\ best_opt_cost' = DBL_MAX
  /\ current_sat_error' = DBL_MAX
  /\ current_opt_cost' = DBL_MAX
  /\ UNCHANGED <<prob, start_opt_loop, ret, variables, view, obj_view, final_solution, final_cost,
                 result, timeout, now, elapsed_time, search_iterations, samp_i,
                 best_values, sic_best_sat_error, pending, min_best_seen,
                 min_current_seen>>

\* Construction, and the entry of solve() on the engine it produced.
CtorNext ==
  \/ Construct
  \/ SolveCall

CtorSpec == CtorInit /\ [][CtorNext]_vars

\* ------------------------------------------- Solver.cpp: move evaluation
\* The older loop (Solver.cpp) evaluates a candidate by changing the variables
\* themselves: its constraints read the variables, so c->cost() is the error
\* on the values the variables hold at the call.
OldCost(c, a) == RequiredError(prob, c, a)

\* std::swap of the _index and _cache_value of the variables v and u.
SwapValues(a, v, u) == [a EXCEPT ![v] = a[u], ![u] = a[v]]

\* simulate_local_move_cost( variable, value, costConstraints, currentSatCost ):
\* the values the variables are left with, and the cost returned.
simulate_local_move_cost(a, v, x, costConstraints, currentSatCost) ==
  LET set == [a EXCEPT ![v] = x]
      diff == [c \in matrix_var_ctr(v) |-> OldCost(c, set) - costConstraints[c]]
  IN [variables |-> set,
      cost |-> currentSatCost + SumOver(diff, matrix_var_ctr(v))]

\* A variant that counts a constraint of both variables twice.
simulate_permutation_cost_twice(a, v, u, costConstraints, currentSatCost) ==
  LET swapped == SwapValues(a, v, u)
      diff == [c \in Ctrs |-> OldCost(c, swapped) - costConstraints[c]]
  IN [variables |-> SwapValues(swapped, v, u),
      cost |-> currentSatCost + SumOver(diff, matrix_var_ctr(v))
                              + SumOver(diff, matrix_var_ctr(u))]

\* simulate_permutation_cost( worstVariable, otherVariable, costConstraints,
\* currentSatCost ): swap, sum the differences over the constraints of either
\* variable counted once, swap back.
simulate_permutation_cost(a, v, u, costConstraints, currentSatCost) ==
  LET swapped == SwapValues(a, v, u)
      both == matrix_var_ctr(v) \cup matrix_var_ctr(u)
      diff == [c \in both |-> OldCost(c, swapped) - costConstraints[c]]
  IN [variables |-> SwapValues(swapped, v, u),
      cost |-> currentSatCost + SumOver(diff, both)]

\* The state in which local_move or permutation_move evaluates candidates:
\* the loop has just recomputed the constraint costs of the assignment.
OldInit ==
  /\ prob \in Problems
  /\ pc = "evaluating"
  /\ ret = "none"
  /\ variables \in IF IsPermutation(prob) THEN random_permutations(CHOOSE a \in InitialValues(prob) : TRUE)
                                          ELSE monte_carlo_sampling
  /\ view = [c \in Ctrs |-> variables]
  /\ obj_view = variables
  /\ final_solution = Zeros
  /\ final_cost = 0
  /\ result = FALSE
  /\ error_constraints = [c \in Ctrs |-> OldCost(c, variables)]
  /\ error_variables = compute_variables_errors(error_constraints)
  /\ error_non_tabu_variables = error_variables
  /\ weak_tabu_list = Zeros
  /\ best_sat_error = DBL_MAX
  /\ best_opt_cost = DBL_MAX
  /\ current_sat_error = SumOver(error_constraints, Ctrs)
  /\ current_opt_cost = DBL_MAX
  /\ no_random_starting_point = FALSE
  /\ free_variables = TRUE
  /\ timeout = 0
  /\ now = 0
  /\ elapsed_time = 0
  /\ search_iterations = 0
  /\ samp_i = 0
  /\ best_values = Zeros
  /\ sic_best_sat_error = DBL_MAX
  /\ best_sat_error_opt_loop = DBL_MAX
  /\ start_opt_loop = 0
  /\ pending = NoPending
  /\ min_best_seen = DBL_MAX
  /\ min_current_seen = DBL_MAX

\* What a call of a simulate function leaves behind: the variables, and the
\* candidate with the cost returned for it (kept in pending).
OldSimulated(v, candidate, r) ==
  /\ variables' = r.variables
  /\ pending' = [variable_to_change |-> v, new_value |-> candidate, deltas |-> <<>>,
                 min_conflict |-> r.cost]
  /\ UNCHANGED <<prob, best_sat_error_opt_loop, start_opt_loop,
                 pc, ret, view, obj_view, final_solution, final_cost, result,
                 error_constraints, error_variables, error_non_tabu_variables,
                 weak_tabu_list, best_sat_error, best_opt_cost, current_sat_error,
                 current_opt_cost, no_random_starting_point, free_variables,
                 timeout, now, elapsed_time, search_iterations, samp_i,
                 best_values, sic_best_sat_error, min_best_seen, min_current_seen>>

\* One turn of the loop of local_move: a call of simulate_local_move_cost.
OldSimulateLocalMove ==
  /\ pc = "evaluating"
  /\ ~IsPermutation(prob)
  /\ \E v \in Vars : \E x \in Domain(prob, v) :
       OldSimulated(v, x, simulate_local_move_cost(variables, v, x, error_constraints,
                                                   current_sat_error))

\* One turn of the loop of permutation_move: a call of
\* simulate_permutation_cost.
OldSimulatePermutation ==
  /\ pc = "evaluating"
  /\ IsPermutation(prob)
  /\ \E v \in Vars : \E u \in Vars \ {v} :
       OldSimulated(v, u, simulate_permutation_cost(variables, v, u, error_constraints,
                                                   current_sat_error))

OldNext ==
  \/ OldSimulateLocalMove
  \/ OldSimulatePermutation

OldSpec == OldInit /\ [][OldNext]_vars

\* --------------------------------------------------- Solver.cpp: the loop
\* The older engine (Solver.cpp) recomputes the costs from the variables on
\* every turn of its satisfaction loop, decays the weak tabu list there and
\* writes it after the move.  Its counters optLoop and satLoop are only
\* printed and are left out.
OldLoopProblems == Problems \cup {"quad", "order"}

\* "if( optTimeout == 0 ) optTimeout = satTimeout * 10", for a caller that
\* leaves optTimeout at 0.
optTimeout == timeout * 10

\* A variant of the decay that leaves the counters alone.
decay_weak_tabu_list_kept(list) ==
  [returns |-> \E i \in DOMAIN list : list[i] = 0, list |-> list]

\* decay_weak_tabu_list( freeVariables ): the flag set for a counter found at
\* 0, every other counter decremented.
decay_weak_tabu_list(list) ==
  [returns |-> \E i \in DOMAIN list : list[i] = 0,
   list |-> [i \in DOMAIN list |-> IF list[i] = 0 THEN 0 ELSE list[i] - 1]]

\* compute_variables_costs: costNonTabuVariables.
costNonTabuVariables(costVariables, list) ==
  [v \in Vars |-> IF list[v] = 0 THEN costVariables[v] ELSE 0]

\* compute_worst_variables( freeVariables, costVariables ) of Solver.cpp: the
\* variables of the highest cost, starting from 0, among those not tabu when
\* there are free variables.
old_compute_worst_variables(freeVariables, costVariables, list) ==
  LET eligible == {v \in Vars : ~freeVariables \/ list[v] = 0}
      worstVariableCost == MaxOf({0} \cup {costVariables[v] : v \in eligible})
  IN {v \in eligible : costVariables[v] = worstVariableCost}

RECURSIVE PermutedWithin(_, _)
PermutedWithin(S, n) ==
  IF n = 0 THEN S
  ELSE PermutedWithin(UNION {random_permutations(a) : a \in S}, n - 1)

\* set_initial_configuration( 10 ) of Solver.cpp keeps the first sample of the
\* lowest cost (update_better_configuration) and sets the variables to it;
\* every sample can be drawn each time, so each can be the one kept.
old_set_initial_configuration ==
  IF IsPermutation(prob)
    THEN UNION {PermutedWithin({variables}, i) : i \in 1..Samplings}
    ELSE monte_carlo_sampling

\* local_move( variable, ... ): the assignments and costs it can leave.
local_move(a, v, costConstraints, currentSatCost) ==
  LET sim(x) == simulate_local_move_cost(a, v, x, costConstraints, currentSatCost)
      bestCost == MinOf({sim(x).cost : x \in Domain(prob, v)})
      bestValuesList == {x \in Domain(prob, v) : sim(x).cost = bestCost}
      afterLoop == [a EXCEPT ![v] = MaxOf(Domain(prob, v))]
      picks == IF Cardinality(bestValuesList) > 1
                 THEN heuristic_value(afterLoop, v, bestValuesList).returns
                 ELSE bestValuesList
  IN {[variables |-> [a EXCEPT ![v] = bestValue], cost |-> bestCost] :
        bestValue \in picks}

\* permutation_move( variable, ... ): the assignments and costs it can leave.
permutation_move(a, v, costConstraints, currentSatCost) ==
  LET sim(u) == simulate_permutation_cost(a, v, u, costConstraints, currentSatCost)
      bestCost == MinOf({sim(u).cost : u \in Vars \ {v}})
      bestVarToSwapList == {u \in Vars \ {v} : sim(u).cost = bestCost}
  IN {[variables |-> SwapValues(a, v, bestVarToSwap), cost |-> bestCost] :
        bestVarToSwap \in bestVarToSwapList}

\* The engine after Solver::Solver.
OldLoopInit ==
  /\ prob \in OldLoopProblems
  /\ pc = "constructed"
  /\ ret = "none"
  /\ variables \in InitialValues(prob)
  /\ view = [c \in Ctrs |-> variables]
  /\ obj_view = variables
  /\ final_solution \in {<<>>, Zeros}
  /\ final_cost = 0
  /\ result = FALSE
  /\ error_constraints = [c \in Ctrs |-> 0]
  /\ error_variables = Zeros
  /\ error_non_tabu_variables = Zeros
  /\ weak_tabu_list = Zeros
  /\ best_sat_error = DBL_MAX
  /\ best_opt_cost = DBL_MAX
  /\ current_sat_error = DBL_MAX
  /\ current_opt_cost = DBL_MAX
  /\ no_random_starting_point = FALSE
  /\ free_variables = FALSE
  /\ timeout = 0
  /\ now = 0
  /\ elapsed_time = 0
  /\ search_iterations = 0
  /\ samp_i = 0
  /\ best_values = Zeros
  /\ sic_best_sat_error = DBL_MAX
  /\ best_sat_error_opt_loop = DBL_MAX
  /\ start_opt_loop = 0
  /\ pending = NoPending
  /\ min_best_seen = DBL_MAX
  /\ min_current_seen = DBL_MAX

\* solve() of Solver.cpp up to the optimization loop.
OldSolveCall ==
  /\ pc = "constructed"
  /\ \E t \in {0, MaxNow}, nrs \in BOOLEAN :
       /\ timeout' = t
       /\ no_random_starting_point' = nrs
  /\ final_solution' = Resize(final_solution, NumVars(prob))
  /\ best_sat_error' = DBL_MAX
  /\ best_opt_cost' = DBL_MAX
  /\ pc' = "opt_loop"
  /\ UNCHANGED <<prob, best_sat_error_opt_loop, start_opt_loop, ret, variables, view,
                 obj_view, final_cost, result, error_constraints, error_variables,
                 error_non_tabu_variables, weak_tabu_list, current_sat_error,
                 current_opt_cost, free_variables, now, elapsed_time,
                 search_iterations, samp_i, best_values, sic_best_sat_error,
                 pending, min_best_seen, min_current_seen>>

\* The optimization loop, from its top to the satisfaction loop.
OldOptLoopEnter ==
  /\ pc = "opt_loop"
  /\ start_opt_loop' = now
  /\ IF ~no_random_starting_point
       THEN /\ variables' \in old_set_initial_configuration
            /\ UNCHANGED no_random_starting_point
       ELSE /\ no_random_starting_point' = FALSE
            /\ UNCHANGED variables
  /\ weak_tabu_list' = Zeros
  /\ best_sat_error_opt_loop' = DBL_MAX
  /\ pending' = NoPending
  /\ pc' = "sat_loop"
  /\ UNCHANGED <<prob, ret, view, obj_view, final_solution, final_cost, result,
                 error_constraints, error_variables, error_non_tabu_variables,
                 best_sat_error, best_opt_cost, current_sat_error, current_opt_cost,
                 free_variables, timeout, now, elapsed_time, search_iterations,
                 samp_i, best_values, sic_best_sat_error, min_best_seen,
                 min_current_seen>>

\* The satisfaction loop, from its top to the choice of worstVariable.
OldSelect ==
  /\ pc = "sat_loop"
  /\ LET costConstraints == [c \in Ctrs |-> OldCost(c, variables)]
         costVariables == compute_variables_errors(costConstraints)
         decayed == decay_weak_tabu_list(weak_tabu_list)
         worstVariableList ==
           old_compute_worst_variables(decayed.returns, costVariables, decayed.list)
     IN /\ error_constraints' = costConstraints
        /\ current_sat_error' = SumOver(costConstraints, Ctrs)
        /\ error_variables' = costVariables
        /\ error_non_tabu_variables' = costNonTabuVariables(costVariables, weak_tabu_list)
        /\ free_variables' = decayed.returns
        /\ weak_tabu_list' = decayed.list
        /\ \E worstVariable \in worstVariableList :
             pending' = [NoPending EXCEPT !.variable_to_change = worstVariable]
  /\ pc' = "move"
  /\ UNCHANGED <<prob, best_sat_error_opt_loop, start_opt_loop, ret, variables, view,
                 obj_view, final_solution, final_cost, result, best_sat_error,
                 best_opt_cost, current_opt_cost, no_random_starting_point, timeout,
                 now, elapsed_time, search_iterations, samp_i, best_values,
                 sic_best_sat_error, min_best_seen, min_current_seen>>

\* The satisfaction loop, from the move to its guard.
OldMove ==
  /\ pc = "move"
  /\ LET worstVariable == pending.variable_to_change
         moves == IF IsPermutation(prob)
                    THEN permutation_move(variables, worstVariable, error_constraints,
                                          current_sat_error)
                    ELSE local_move(variables, worstVariable, error_constraints,
                                    current_sat_error)
     IN \E m \in moves :
          LET improves == best_sat_error_opt_loop > m.cost
              bestSatCostOptLoop == IF improves THEN m.cost ELSE best_sat_error_opt_loop
              saves == improves /\ best_sat_error >= bestSatCostOptLoop /\ best_sat_error > 0
              bestSatCost == IF saves THEN bestSatCostOptLoop ELSE best_sat_error
              rounds == bestSatCostOptLoop <= 0
          IN /\ variables' = m.variables
             /\ current_sat_error' = m.cost
             /\ final_solution' = IF saves THEN m.variables ELSE final_solution
             /\ weak_tabu_list' =
                  [weak_tabu_list EXCEPT ![worstVariable] =
                     IF improves THEN tabu_time_selected ELSE tabu_time_local_min]
             /\ best_sat_error_opt_loop' = IF rounds THEN 0 ELSE bestSatCostOptLoop
             /\ best_sat_error' = IF rounds THEN 0 ELSE bestSatCost
  /\ ReadClock
  /\ pc' = IF /\ best_sat_error_opt_loop' > 0
              /\ now' - start_opt_loop < timeout
              /\ now' < optTimeout
             THEN "sat_loop" ELSE "opt_end"
  /\ UNCHANGED <<prob, start_opt_loop, ret, view, obj_view, final_cost, result,
                 error_constraints, error_variables, error_non_tabu_variables,
                 best_opt_cost, current_opt_cost, no_random_starting_point,
                 free_variables, timeout, search_iterations, samp_i, best_values,
                 sic_best_sat_error, pending, min_best_seen, min_current_seen>>

\* The optimization loop after the satisfaction loop, its guard, and the end
\* of solve() when the guard fails.
OldOptLoopEnd ==
  /\ pc = "opt_end"
  /\ LET solved == best_sat_error_opt_loop = 0
         currentOptCost == RequiredCost(prob, variables)
         better == solved /\ best_opt_cost > currentOptCost
         bestOptCost == IF better THEN currentOptCost ELSE best_opt_cost
         finalSolution == IF better THEN variables ELSE final_solution
     IN /\ current_opt_cost' = IF solved THEN currentOptCost ELSE current_opt_cost
        /\ final_solution' = finalSolution
        /\ ReadClock
        /\ IF now' < optTimeout /\ (is_optimization \/ bestOptCost > 0)
             THEN /\ pc' = "opt_loop"
                  /\ best_opt_cost' = bestOptCost
                  /\ UNCHANGED <<variables, final_cost, result>>
             ELSE /\ pc' = "old_done"
                  /\ best_opt_cost' = IF is_optimization THEN Abs(bestOptCost)
                                                         ELSE bestOptCost
                  /\ final_cost' = IF is_optimization THEN best_opt_cost'
                                                      ELSE best_sat_error
                  /\ variables' = finalSolution
                  /\ result' = (best_sat_error = 0)
  /\ UNCHANGED <<prob, best_sat_error_opt_loop, start_opt_loop, ret, view, obj_view,
                 error_constraints, error_variables, error_non_tabu_variables,
                 weak_tabu_list, best_sat_error, current_sat_error,
                 no_random_starting_point, free_variables, timeout,
                 search_iterations, samp_i, best_values, sic_best_sat_error,
                 pending, min_best_seen, min_current_seen>>

OldLoopNext ==
  \/ OldSolveCall
  \/ OldOptLoopEnter
  \/ OldSelect
  \/ OldMove
  \/ OldOptLoopEnd

OldLoopSpec == OldLoopInit /\ [][OldLoopNext]_vars

\* =========================================================== claims
\* A stable point of the solve loop: the loop guard is about to be evaluated.
Stable == pc = "guard"

\* Total constraint error of the assignment a, computed from scratch.
TotalError(a) == SumOver([c \in Ctrs |-> RequiredError(prob, c, a)], Ctrs)

P1 == current_sat_error = SumOver(error_constraints, Ctrs)

P2 == \A v \in Vars : error_variables[v] = SumOver(error_constraints, matrix_var_ctr(v))

P3 == \A c \in Ctrs : call_error(c) = error_constraints[c]

InDomain(a) == \A v \in Vars : a[v] \in Domain(prob, v)

\* C1: whenever solve returns true, the assignment written to final_solution
\* and restored into the variables has total constraint error 0.
C1_TrueMeansSolution ==
  (pc = "done" /\ result) =>
    (variables = final_solution /\ TotalError(final_solution) = 0)

\* C2: solve returns true if and only if best_sat_error is 0 when it returns.
C2_ReturnIffBestZero ==
  pc = "done" => (result <=> best_sat_error = 0)

C2_Witness == pc = "done" /\ result /\ best_sat_error = 0 /\ search_iterations > 0

\* C3 (P3): at every stable point, every constraint's error() equals the
\* cached error_constraints entry.
C3_P3AtStablePoints == Stable => P3

\* C4 (P1): at every stable point current_sat_error is the sum of
\* error_constraints.
C4_P1AtStablePoints == Stable => P1

C4_Witness ==
  /\ Stable
  /\ prob = "chain"
  /\ best_sat_error < DBL_MAX
  /\ current_sat_error > 0
  /\ P1

\* C5 (P2): at every stable point error_variables is, for every variable, the
\* sum of error_constraints over its constraints, i.e. what
\* compute_variables_errors gives from zero.
C5_P2AtStablePoints ==
  Stable => (P2 /\ error_variables = compute_variables_errors(error_constraints))

C5_Witness ==
  /\ Stable
  /\ prob = "chain"
  /\ best_sat_error < DBL_MAX
  /\ error_variables[2] > error_variables[1]
  /\ P2

\* C6 (P5): every variable's value is in its domain in every reachable state,
\* the state after the final restore included.
C6_ValuesInDomain == InDomain(variables)

\* C7 (P4): at every stable point best_sat_error is at most its value at
\* every earlier stable point.
C7_BestNonIncreasing == Stable => best_sat_error <= min_best_seen

\* C8: at every stable point, and at return, best_sat_error is at most the
\* present current_sat_error and every current_sat_error of an earlier
\* stable point.
C8_BestBelowCurrent ==
  pc \in {"guard", "done"} =>
    (best_sat_error <= current_sat_error /\ best_sat_error <= min_current_seen)

\* C9: with timeout 0 solve runs no iteration and writes an assignment whose
\* every entry is a value of the variable's domain.
C9_ZeroTimeout ==
  (pc = "done" /\ timeout = 0) =>
    (search_iterations = 0 /\ InDomain(final_solution) /\ InDomain(variables))

\* Every constraint has been sent the current value of each of its variables.
AllSent == \A c \in Ctrs : \A v \in Scope(prob, c) : view[c][v] = variables[v]

InRestart == pc \in {"restart", "sampling"}

\* C10: in the state restart() returns in, P1, P2 and P3 hold and every
\* constraint has been sent the current value of each of its variables.
C10_RestartEstablishesP123 ==
  [][(InRestart /\ ~InRestart') => (P1 /\ P2 /\ P3 /\ AllSent)']_vars

C10_Witness ==
  /\ pc = "apply"
  /\ current_sat_error > 0
  /\ \E v \in Vars : error_variables[v] # current_sat_error
  /\ P1 /\ P2 /\ P3 /\ AllSent

\* The step in which solve() leaves the loop and returns.
Returns == pc = "guard" /\ pc' = "done"

\* C11: the cost solve writes to final_cost is best_sat_error when no
\* objective was given; with an objective it is best_opt_cost, made positive
\* when best_opt_cost is negative.
C11_FinalCost ==
  [][Returns =>
       final_cost' = IF ~HasObjective(prob) THEN best_sat_error
                     ELSE IF best_opt_cost < 0 THEN 0 - best_opt_cost
                     ELSE best_opt_cost]_vars

C11_Witness ==
  /\ pc = "done"
  /\ HasObjective(prob)
  /\ final_cost > 0
  /\ final_cost < DBL_MAX
  /\ RequiredCost(prob, final_solution) = 0 - final_cost

\* C12: in an optimization run, whenever the handoff adopts a candidate cost
\* below best_opt_cost, the assignment snapshotted into final_solution is the
\* assignment after the move: its total constraint error is 0 and its
\* objective cost is the adopted cost.
C12_HandoffSnapshot ==
  [][(HasObjective(prob) /\ pc = "guard" /\ pc' = "guard"
        /\ best_opt_cost' < best_opt_cost)
       => (/\ TotalError(final_solution') = 0
           /\ RequiredCost(prob, final_solution') = best_opt_cost')]_vars

\* C13: at a stable point the loop runs another iteration exactly when time
\* remains and either best_sat_error > 0, or best_sat_error is 0 and the
\* problem has an objective; otherwise solve leaves the loop and returns.
C13_LoopGuard ==
  [][pc = "guard" =>
       ((pc' # "done") <=>
          (/\ elapsed_time < timeout
           /\ \/ best_sat_error > 0
              \/ best_sat_error = 0 /\ HasObjective(prob)))]_vars

C13_Witness ==
  /\ pc = "restart"
  /\ HasObjective(prob)
  /\ best_sat_error = 0
  /\ elapsed_time < timeout

C13_SatWitness ==
  /\ pc = "done"
  /\ ~HasObjective(prob)
  /\ best_sat_error = 0
  /\ elapsed_time < timeout
  /\ search_iterations > 0

\* C14: every solve call terminates: with a clock that advances, the loop
\* guard eventually sees elapsed_time >= timeout (or an error-free best) and
\* no further iteration is started, whatever restarts, plateau walks and
\* handoff steps occur.  A run in which the read of an empty candidate list
\* faults ends as well.
C14_Terminates == <>(pc \in {"done", "crashed"})

C14_Witness ==
  /\ pc = "done"
  /\ timeout > 0
  /\ elapsed_time >= timeout
  /\ best_sat_error > 0
  /\ search_iterations > 0

\* The branches an iteration can take on given random draws: the picked
\* variable v, the picked value x and the restart draw r.  What the read of
\* an empty candidate list does is fixed by the build: it faults or it does not.
BranchesWith(v, x, r, faults) ==
  <<TakesHandoffAdopt(v, x),
    TakesHandoffEqualRestart(v, x, r),
    TakesHandoffEqualWalk(v, x, r),
    TakesHandoffWorseRestart(v, x),
    TakesPlateauRestart(v, x, r),
    TakesApply(v, x, r),
    TakesWorsenRestart(v) /\ (EmptyPick(v) => ~faults),
    EmptyPick(v) /\ faults>>

BranchCount(b) == Cardinality({i \in DOMAIN b : b[i]})

C16_SingleValueFixed ==
  \A v \in Vars :
    Cardinality(Domain(prob, v)) = 1 => \A x \in Domain(prob, v) : variables[v] = x

\* C17: on the unsatisfiable problem with one variable in 0..3 and error
\* |x - 10|, every solve run that executes at least one loop iteration returns
\* false with best_sat_error 7 and the value 3 in final_solution, whatever
\* plateau restarts occur.
C17_UnsatScenario ==
  (pc = "done" /\ prob = "unsat" /\ search_iterations >= 1) =>
    (~result /\ best_sat_error = 7 /\ final_solution = <<3>>)

\* The two satisfying assignments of the plateau scenario.
EqSolutions == {<<0, 0>>, <<1, 1>>}

\* C18 (plateau escape): on the problem with two variables over {0,1} and
\* error 0 exactly on (0,0) and (1,1), each of the two satisfying assignments
\* can be the result of solve.  Every restart can sample each of them,
\* whatever was reached before, and each of them is returned by some run
\* (C18_Witness, C18_WitnessZeros).
C18_PlateauEscape ==
  (prob = "eq" /\ pc = "sampling") =>
    \A a \in EqSolutions : ENABLED (Sample /\ variables' = a)

C18_Witness ==
  /\ pc = "done"
  /\ prob = "eq"
  /\ result
  /\ search_iterations > 0
  /\ final_solution = <<1, 1>>
  /\ variables = <<1, 1>>

C18_WitnessZeros ==
  /\ pc = "done"
  /\ prob = "eq"
  /\ result
  /\ search_iterations > 0
  /\ final_solution = <<0, 0>>
  /\ variables = <<0, 0>>

\* How many variables hold the value k in the assignment a.
CountOf(a, k) == Cardinality({v \in Vars : a[v] = k})

\* C19: in permutation mode the multiset of variable values is the same in
\* every reachable state (sampling, moves, restarts, the final restore): the
\* variables start with pairwise distinct values, so the assignment is always
\* a permutation of them.
C19_PermutationKept ==
  IsPermutation(prob) =>
    \A k \in 0..3 : \A a \in InitialValues(prob) : CountOf(variables, k) = CountOf(a, k)

\* C20 (P6): evaluating a candidate has no net side effect: after the
\* evaluation of a value in standard mode, or of a swap in permutation mode,
\* every variable has the value it had before the call and every constraint
\* returns the error it returned before the call.
C20_SimulateNoSideEffect ==
  [][(pc = "evaluating" /\ pending' # pending) =>
       (/\ variables' = variables
        /\ \A c \in Ctrs : OldCost(c, variables') = OldCost(c, variables))]_vars

\* The same for the swap evaluation alone.
C20_SwapRolledBack ==
  [][(pc = "evaluating" /\ IsPermutation(prob) /\ pending' # pending) =>
       (/\ variables' = variables
        /\ \A c \in Ctrs : OldCost(c, variables') = OldCost(c, variables))]_vars

\* Some variable of the problem has an empty domain.
HasEmptyDomain == \E v \in Vars : Domain(prob, v) = {}

\* C21: constructing the engine with a variable whose domain is empty fails
\* at construction: no engine on which solve could run, or runs, is produced.
C21_EmptyDomainFatal ==
  HasEmptyDomain => pc = "constructing"

\* C22: a restart triggered inside the move-acceptance branch replaces the
\* move: at the next stable point the variables, error_constraints,
\* error_variables and current_sat_error are those restart() produced, the
\* rejected move not having been applied on top of them.
C22_RestartReplacesMove ==
  [][(pc = "apply" /\ pc' = "guard") =>
       (/\ variables' = variables
        /\ error_constraints' = error_constraints
        /\ error_variables' = error_variables
        /\ current_sat_error' = current_sat_error)]_vars

\* C23: at every stable point the constraints see the engine's live
\* assignment: after every move accepted without a restart, the handoff cases
\* "adopt a lower cost" and "walk on equal cost" included, the value the engine
\* holds for a variable is the value last sent to its constraints.
C23_ConstraintsSeeLive == Stable => AllSent

\* The sum of simulate_delta( v, x ) over the constraints of v.
DeltaSum(v, x) ==
  SumOver([c \in matrix_var_ctr(v) |-> simulate_delta(c, v, x)], matrix_var_ctr(v))

\* The least summed delta over the full domain of v.
BestDelta(v) == MinOf({DeltaSum(v, x) : x \in Domain(prob, v)})

\* What the selection loop of an iteration that picked v computes is the
\* least summed delta and the set of the domain values reaching it.
SelectsBest(v) ==
  /\ MinConflictOf(v) = BestDelta(v)
  /\ CandidateValues(Cumulated(DeltaErrors(v))) =
       {x \in Domain(prob, v) : DeltaSum(v, x) = BestDelta(v)}

\* C24: in standard mode, for the picked variable, best_delta is the minimum
\* over all values x of its full domain of the sum of simulate_delta over its
\* constraints, and candidate_values is exactly the set of domain values whose
\* summed delta equals best_delta.
C24_BestDeltaAndCandidates ==
  (pc = "guard" /\ LoopGuard /\ ~IsPermutation(prob)) =>
    \A v \in compute_worst_variables : SelectsBest(v)

\* The same for picked variables that belong to at least one constraint.
C24_WithConstraints ==
  (pc = "guard" /\ LoopGuard /\ ~IsPermutation(prob)) =>
    \A v \in compute_worst_variables : matrix_var_ctr(v) # {} => SelectsBest(v)

\* The iteration that picks the variable v and the value x on the restart
\* draw r, whatever branch it takes.
SelectsValue(v, x, r) ==
  \/ IterHandoffAdoptWith(v, x)
  \/ IterHandoffEqualRestartWith(v, x, r)
  \/ IterHandoffEqualWalkWith(v, x, r)
  \/ IterHandoffWorseRestartWith(v, x)
  \/ IterPlateauRestartWith(v, x, r)
  \/ IterApplyWith(v, x, r)

\* C25: in standard mode, whenever candidate_values has more than one element,
\* the value an iteration selects and applies is one that the objective's
\* heuristic_value( variables, v, candidate_values ) returns.
C25_HeuristicTieBreak ==
  [][\A v \in Vars : \A x \in Domain(prob, v) : \A r \in BOOLEAN :
       (/\ ~IsPermutation(prob)
        /\ SelectsValue(v, x, r)
        /\ Cardinality(CandidateValues(Cumulated(DeltaErrors(v)))) > 1)
       => x \in heuristic_value(variables, v,
                                CandidateValues(Cumulated(DeltaErrors(v)))).returns]_vars

\* The objective cost of the assignment a with the variable var at v.
CostWith(a, var, v) == RequiredCost(prob, [a EXCEPT ![var] = v])

\* C26: the default heuristic_value( variables, var, possible_values ) returns
\* a member of possible_values whose objective cost, with var set to it, is
\* minimal among possible_values, and leaves var at the value it had before
\* the call.
C26_HeuristicValue ==
  [][(pc = "heuristic" /\ pc' = "returned") =>
       LET var == pending.variable_to_change
           possible_values == DOMAIN pending.deltas
           returned == pending'.new_value
       IN /\ returned \in possible_values
          /\ \A v \in possible_values :
               CostWith(variables, var, returned) <= CostWith(variables, var, v)
          /\ variables'[var] = variables[var]]_vars

C26_Witness ==
  /\ pc = "returned"
  /\ prob = "knap"
  /\ pending.variable_to_change = 1
  /\ DOMAIN pending.deltas = {0, 1, 2}
  /\ pending.new_value = 2
  /\ variables[1] = 0

\* A call on values of equal cost, which may return any of them.
C26_TieWitness ==
  /\ pc = "returned"
  /\ prob = "eq"
  /\ DOMAIN pending.deltas = {0, 1}
  /\ pending.new_value = 0
  /\ variables[pending.variable_to_change] = 1

C27_ZeroWitness ==
  /\ pc = "guard"
  /\ LoopGuard
  /\ prob = "chain"
  /\ error_variables = <<0, 0, 0>>
  /\ compute_worst_variables = {1, 2, 3}

\* The first restart of a solve call that was given no_random_start = true.
FirstRestartFromCaller == pc = "restart" /\ ret = "first" /\ no_random_starting_point

\* C28: when solve is called with no_random_start = true, the first restart
\* leaves every variable at the value the caller supplied and samples nothing;
\* every later restart of the call, and every restart of a call with
\* no_random_start = false, enters set_initial_configuration( 10 ).
C28_NoRandomStartOnce ==
  [][/\ pc = "idle" => variables' = variables
     /\ FirstRestartFromCaller => (variables' = variables /\ pc' = "guard")
     /\ (pc = "restart" /\ ~FirstRestartFromCaller) =>
          (pc' = "sampling" /\ samp_i' = 0 /\ Samplings = 10)]_vars

C28_Witness ==
  /\ FirstRestartFromCaller
  /\ timeout > 0

\* A later restart of a call that started from the caller's assignment: the
\* sampling loop is running.
C28_LaterWitness ==
  /\ pc = "sampling"
  /\ ret \in {"apply", "else"}
  /\ samp_i > 0
  /\ search_iterations > 0

\* C29: set_initial_configuration( samplings ) draws at most
\* max( 1, samplings ) samples, stops at the first sample whose own total
\* constraint error is 0, and leaves the variables at the drawn sample of
\* lowest own error: it goes on to another draw only after a sample of
\* positive error, and what it leaves is no worse than the sample drawn before
\* the last one.
C29_KeepsBestSample ==
  [][pc = "sampling" =>
       /\ samp_i < Max2(1, Samplings)
       /\ pc' = "sampling" => TotalError(variables') > 0
       /\ (pc' # "sampling" /\ samp_i > 0) =>
            TotalError(variables') <= TotalError(variables)]_vars

\* C30: after the move of an outer iteration the weak tabu counter of the
\* picked variable is tabu_time_selected when the move improved this
\* restart's best satisfaction error, and tabu_time_local_min otherwise.
C30_TabuWritten ==
  [][\A v \in Vars : \A x \in Domain(prob, v) : \A r \in BOOLEAN :
       IterApplyWith(v, x, r) =>
         weak_tabu_list'[v] = IF best_sat_error' < best_sat_error
                                THEN tabu_time_selected
                                ELSE tabu_time_local_min]_vars

\* C33: at every stable point error_non_tabu_variables[v] is
\* error_variables[v] for a variable whose weak tabu counter is 0 and 0 for a
\* tabu variable, also after accepted moves have changed error_variables.
C33_NonTabuErrors ==
  Stable =>
    \A v \in Vars :
      error_non_tabu_variables[v] = IF weak_tabu_list[v] = 0 THEN error_variables[v] ELSE 0

C35_WorsenWitness ==
  /\ pc = "restart"
  /\ ret = "else"
  /\ prob = "free"

\* C37: with constraint error functions that are non-negative on every
\* assignment, error_constraints[i] >= 0 and current_sat_error >= 0 at every
\* stable point, and best_sat_error is never negative.
C37_NonNegativeErrors ==
  /\ Stable => (current_sat_error >= 0 /\ \A c \in Ctrs : error_constraints[c] >= 0)
  /\ best_sat_error >= 0

\* C38: whenever the engine picks the variable to change the worst-variable
\* list is not empty, and whenever it picks new_value the candidate_values
\* list is not empty, also when the picked variable belongs to no constraint.
C38_PicksFromNonEmpty ==
  (pc = "guard" /\ LoopGuard) =>
    /\ compute_worst_variables # {}
    /\ \A v \in compute_worst_variables : ~EmptyPick(v)

\* C39: at every stable point of an optimization run the value of each
\* variable last delivered to the objective is the engine's current value of
\* it, so current_opt_cost, once set, is the objective cost of the current
\* assignment, also after restarts and rejected handoff candidates.
C39_ObjectiveSeesLive ==
  (Stable /\ HasObjective(prob)) =>
    /\ obj_view = variables
    /\ current_opt_cost # DBL_MAX => current_opt_cost = RequiredCost(prob, variables)

\* C40: in a satisfaction run, once a snapshot has set best_sat_error, it is
\* the total constraint error, computed from scratch, of the assignment stored
\* in final_solution; the final_cost returned is the real error of the
\* returned assignment.
C40_SnapshotIsReal ==
  ~HasObjective(prob) =>
    /\ best_sat_error # DBL_MAX => best_sat_error = TotalError(final_solution)
    /\ (pc = "done" /\ best_sat_error # DBL_MAX) =>
         final_cost = TotalError(final_solution)

\* C36: in the older engine, after local_move or permutation_move the
\* currentSatCost is the sum of cost() of all constraints on the resulting
\* assignment; a constraint of both swapped variables is counted once.
C36_MoveCostIsReal ==
  (pc \in {"sat_loop", "opt_end"} /\ pending.variable_to_change # 0) =>
    current_sat_error = TotalError(variables)

\* A swap of two variables of one constraint has changed the cost.
C36_Witness ==
  /\ prob = "order"
  /\ pc \in {"sat_loop", "opt_end"}
  /\ pending.variable_to_change # 0
  /\ current_sat_error # SumOver(error_constraints, Ctrs)
  /\ \E c \in Ctrs : \E u \in Scope(prob, c) \ {pending.variable_to_change} :
       /\ pending.variable_to_change \in Scope(prob, c)
       /\ variables[pending.variable_to_change] # variables[u]
       /\ error_constraints[c] # OldCost(c, variables)

\* A local move has changed the cost.
C36_LocalWitness ==
  /\ ~IsPermutation(prob)
  /\ pc \in {"sat_loop", "opt_end"}
  /\ pending.variable_to_change # 0
  /\ current_sat_error < SumOver(error_constraints, Ctrs)

\* C31: on every iteration of the loop each weak tabu counter goes down by
\* exactly 1 and stays at 0 once there, and the rest of the iteration writes
\* only the counter of the picked variable: a counter set to k > 0 is 0
\* again after k further iterations without a restart or a new write.
C31_DecayEveryIteration ==
  [][/\ pc = "sat_loop" =>
          /\ pc' = "move"
          /\ \A v \in Vars : weak_tabu_list'[v] = Max2(0, weak_tabu_list[v] - 1)
     /\ pc = "move" =>
          \A v \in Vars \ {pending.variable_to_change} :
            weak_tabu_list'[v] = weak_tabu_list[v]]_vars

\* A counter written 2 has gone down to 1 and its variable is not picked.
C31_Witness ==
  /\ pc = "move"
  /\ tabu_time_local_min = 2
  /\ \E v \in Vars \ {pending.variable_to_change} : weak_tabu_list[v] = 1

\* C32: decay_weak_tabu_list reports free variables exactly when, after the
\* decay, at least one variable has its weak tabu counter at 0.
C32_FreeAfterDecay ==
  pc = "move" => (free_variables <=> \E v \in Vars : weak_tabu_list[v] = 0)

\* C34: in every reachable state every weak tabu counter is at least 0 and at
\* most tabu_time_local_min = max(1, n/2), and a restart leaves every counter
\* at 0.
C34_TabuBounds ==
  /\ \A v \in Vars : /\ 0 <= weak_tabu_list[v]
                      /\ weak_tabu_list[v] <= Max2(1, NumVars(prob) \div 2)
  /\ (pc = "sat_loop" /\ pending = NoPending) => weak_tabu_list = Zeros

\* A counter stands at the bound 2 of a problem of four variables.
C34_Witness ==
  /\ NumVars(prob) = 4
  /\ \E v \in Vars : weak_tabu_list[v] = 2

\* A later turn of the optimization loop has reset the list.
C34_RestartWitness ==
  /\ pc = "sat_loop"
  /\ pending = NoPending
  /\ best_sat_error # DBL_MAX

====
